---- MODULE Spec2Model ----
(***************************************************************************)
(* State-machine model of the OpenTTD admin client (package admin) and of  *)
(* the way openttd_multitool drives it: command registration, the Connect  *)
(* reconnect loop, the listenSocket reader goroutine with its framing loop *)
(* and packet decoders, and the date-driven RCON scheduler.                *)
(*                                                                         *)
(* Go strings and byte slices are sequences of byte values 0..255.         *)
(***************************************************************************)
EXTENDS Integers, Sequences, FiniteSets, TLC

(***************************************************************************)
(* Protocol constants.                                                     *)
(***************************************************************************)
adminPacketAdminJOIN == 0
adminPacketAdminUPDATE_FREQUENCY == 2
adminPacketAdminRCON == 5
adminPacketServerPROTOCOL == 103
adminPacketServerWELCOME == 104
adminPacketServerSHUTDOWN == 106
adminPacketServerDATE == 107
adminPacketServerCHAT == 119
adminPacketServerRCON == 120
adminPacketServerRCON_END == 125
adminUpdateDATE == 0
adminFrequencyDAILY == 2
adminFrequencyMONTHLY == 8

\* Size of the buffer handed to every connection.Read call.
ReadBufSize == 1024
\* Number of values of a uint16 / of a byte.
Uint16Range == 65536
ByteRange == 256

(***************************************************************************)
(* Bounds of the model.                                                    *)
(***************************************************************************)
\* Connection attempts (net.Dial calls) made by Connect in one behaviour.
MaxAttempts == 2
\* RegisterDateChange calls made before Connect in one behaviour.
MaxReg == 1
\* Total number of registered commands in the reader-only specifications.
MaxList == 3
\* Short reads: a Read may return 1..MaxSmallRead bytes, or a full buffer.
MaxSmallRead == 3
\* Registrations made in the specification of registration alone.
MaxRegOnly == 3

(***************************************************************************)
(* Bytes, integers and strings.                                            *)
(***************************************************************************)
Min(a, b) == IF a < b THEN a ELSE b

\* byte(n): truncation of an int to 8 bits.
ByteOf(n) == n % ByteRange

\* uint16(n): truncation of an int to 16 bits.
Uint16Of(n) == n % Uint16Range

\* binary.LittleEndian.PutUint16
PutUint16(n) == <<Uint16Of(n) % ByteRange, Uint16Of(n) \div ByteRange>>

\* binary.LittleEndian.Uint16 of two bytes
LEUint16(b0, b1) == b0 + ByteRange * b1

\* binary.LittleEndian.Uint32 of four bytes
LEUint32(b0, b1, b2, b3) ==
    b0 + ByteRange * (b1 + ByteRange * (b2 + ByteRange * b3))

\* Decimal digits of n >= 0 as characters, most significant first.
RECURSIVE DecimalDigits(_)
DecimalDigits(n) ==
    IF n < 10 THEN <<48 + n>>
    ELSE Append(DecimalDigits(n \div 10), 48 + (n % 10))

RECURSIVE ZeroFill(_, _)
ZeroFill(s, width) ==
    IF Len(s) >= width THEN s ELSE ZeroFill(<<48>> \o s, width)

\* fmt.Sprintf("%0<width>d", n) for n >= 0: the digits of n, padded on the
\* left with zeros to at least width characters (never cut).
SprintfPadded(width, n) == ZeroFill(DecimalDigits(n), width)

\* Does old occur in s at position i (1-based)?
HasAt(s, old, i) ==
    /\ i + Len(old) - 1 <= Len(s)
    /\ \A k \in 1..Len(old) : s[i + k - 1] = old[k]

\* strings.Replace(s, old, new, -1) for a non-empty old: the non-overlapping
\* occurrences of old, found left to right, are replaced by new.
RECURSIVE ReplaceFrom(_, _, _, _)
ReplaceFrom(s, old, new, i) ==
    IF i > Len(s) THEN <<>>
    ELSE IF HasAt(s, old, i)
         THEN new \o ReplaceFrom(s, old, new, i + Len(old))
         ELSE <<s[i]>> \o ReplaceFrom(s, old, new, i + 1)

StringsReplace(s, old, new) == ReplaceFrom(s, old, new, 1)

(***************************************************************************)
(* Game dates.  time.Date(0, January, 1).AddDate(0, 0, n) is the day n of  *)
(* the proleptic Gregorian calendar counted from 0000-01-01 (year 0 is a   *)
(* leap year); the conversion below is the civil-from-days computation on  *)
(* 400-year eras starting on 0000-03-01.                                   *)
(***************************************************************************)
\* The same count of days taken from 0001-01-01.
AddDateFromYearOne(n) ==
    LET z   == n + 306
        era == z \div 146097
        doe == z - era * 146097
        yoe == (doe - doe \div 1460 + doe \div 36524 - doe \div 146096) \div 365
        doy == doe - (365 * yoe + yoe \div 4 - yoe \div 100)
        mp  == (5 * doy + 2) \div 153
        d   == doy - (153 * mp + 2) \div 5 + 1
        m   == IF mp < 10 THEN mp + 3 ELSE mp - 9
        y   == yoe + era * 400 + (IF m <= 2 THEN 1 ELSE 0)
    IN  [year |-> y, month |-> m, day |-> d]

AddDate(n) ==
    LET z   == n - 60
        era == z \div 146097
        doe == z - era * 146097
        yoe == (doe - doe \div 1460 + doe \div 36524 - doe \div 146096) \div 365
        doy == doe - (365 * yoe + yoe \div 4 - yoe \div 100)
        mp  == (5 * doy + 2) \div 153
        d   == doy - (153 * mp + 2) \div 5 + 1
        m   == IF mp < 10 THEN mp + 3 ELSE mp - 9
        y   == yoe + era * 400 + (IF m <= 2 THEN 1 ELSE 0)
    IN  [year |-> y, month |-> m, day |-> d]

(***************************************************************************)
(* processCommand: three successive strings.Replace passes.                *)
(***************************************************************************)
TokenY == <<37, 89>>  \* "%Y"
TokenM == <<37, 77>>  \* "%M"
TokenD == <<37, 68>>  \* "%D"

processCommandNoPad(command, dt) ==
    LET c1 == StringsReplace(command, TokenY, DecimalDigits(dt.year))
        c2 == StringsReplace(c1, TokenM, DecimalDigits(dt.month))
    IN  StringsReplace(c2, TokenD, DecimalDigits(dt.day))

processCommand(command, dt) ==
    LET c1 == StringsReplace(command, TokenY, SprintfPadded(4, dt.year))
        c2 == StringsReplace(c1, TokenM, SprintfPadded(2, dt.month))
    IN  StringsReplace(c2, TokenD, SprintfPadded(2, dt.day))

(***************************************************************************)
(* Outgoing messages.                                                      *)
(***************************************************************************)
\* sendSocket: 2-byte little-endian size, the type byte, the payload.
sendSocketBytes(protocol, data) ==
    PutUint16(Len(data) + 3) \o <<ByteOf(protocol)>> \o data

\* rconCommand: the command text followed by a zero byte, sent as RCON.
rconCommandBytes(command) ==
    sendSocketBytes(adminPacketAdminRCON, command \o <<0>>)

\* The login message built inline by Connect: the size is written as
\* byte(size) followed by a constant zero byte.
AuthenticateBytes(password, botName, botVersion) ==
    LET toSend == <<adminPacketAdminJOIN>> \o password \o <<0>>
                  \o botName \o <<0>> \o botVersion \o <<0>>
        size   == Len(toSend) + 2
    IN  <<ByteOf(size), 0>> \o toSend

\* The payload registering for date updates.
UpdateFrequencyData ==
    PutUint16(adminUpdateDATE) \o PutUint16(adminFrequencyDAILY)

UpdateFrequencyBytes ==
    sendSocketBytes(adminPacketAdminUPDATE_FREQUENCY, UpdateFrequencyData)

(***************************************************************************)
(* The environment: what the program is started with and what a server may *)
(* send.  A stream is the byte sequence a connection delivers before it    *)
(* falls silent; read errors may cut it short at any point.                *)
(***************************************************************************)
\* The arguments main passes to Connect.
\* A password long enough for the login message to reach 256 bytes.
LongPassword == [i \in 1..229 |-> 120]
Passwords == {<<112, 119>>, LongPassword}           \* "pw", "xx...x"
BotName == <<111, 112, 101, 110, 116, 116, 100, 45, 109, 117, 108, 116,
            105, 116, 111, 111, 108>>                \* "openttd-multitool"
BotVersion == <<48, 46, 48, 50>>                     \* currentVersion, "0.02"

\* Command templates given on the command line.
TplSave == <<115, 32, 37, 89, 45, 37, 77>>           \* "s %Y-%M"
TplShot == <<37, 89, 37, 77, 37, 68>>                \* "%Y%M%D"
TplHello == <<115, 97, 121, 32, 34, 72, 101, 108, 108, 111, 32,
              37, 89, 45, 37, 77, 45, 37, 68, 34>>   \* say "Hello %Y-%M-%D"
TplTwice == <<37, 68, 37, 37, 68, 33, 37, 89, 37>>   \* "%D%%D!%Y%"
Templates == {TplSave, TplShot}
SchedTemplates == {TplHello, TplTwice}
Periods == {"daily", "monthly", "yearly"}
BadPeriods == {"weekly"}

\* A packet as the server encodes it.
Packet(type, payload) == PutUint16(Len(payload) + 3) \o <<type>> \o payload

\* The payload of a Date packet: the day count as 4 little-endian bytes.
DatePayload(n) ==
    <<n % ByteRange, (n \div ByteRange) % ByteRange,
      (n \div (ByteRange * ByteRange)) % ByteRange,
      (n \div (ByteRange * ByteRange * ByteRange)) % ByteRange>>

DatePacket(n) == Packet(adminPacketServerDATE, DatePayload(n))

\* Welcome: name "A", version "1", dedicated, map "m", seed 0x04030201,
\* landscape 2, start date (4 bytes), width 64, height 128.
WelcomePayload ==
    <<65, 0, 49, 0, 1, 109, 0, 1, 2, 3, 4, 2, 9, 9, 9, 9, 64, 0, 128, 0>>

\* A 32-bit value as the server writes it, 4 little-endian bytes.
PutUint32(n) == DatePayload(n)

\* The Welcome payload a server writes for the field values f: the three
\* strings zero-terminated, the flag as one byte, seed and start date as 4
\* bytes, landscape as 1, width and height as 2 bytes each.
WelcomeBytes(f) ==
    f.ServerName \o <<0>> \o f.ServerVersion \o <<0>>
    \o <<IF f.ServerDedicated THEN 1 ELSE 0>>
    \o f.MapName \o <<0>>
    \o PutUint32(f.MapSeed) \o <<f.MapLandscape>> \o PutUint32(f.StartDate)
    \o PutUint16(f.MapX) \o PutUint16(f.MapY)

\* A server with empty names, and one with longer ones.
WelcomeEmptyFields ==
    [ServerName |-> <<>>, ServerVersion |-> <<>>, ServerDedicated |-> FALSE,
     MapName |-> <<>>, MapSeed |-> 305419896, MapLandscape |-> 3,
     StartDate |-> 700000, MapX |-> 256, MapY |-> 512]
WelcomeLongFields ==
    [ServerName |-> <<97, 98, 99>>, ServerVersion |-> <<49, 46, 49, 48>>,
     ServerDedicated |-> TRUE, MapName |-> <<109, 32, 121>>,
     MapSeed |-> 2018915346, MapLandscape |-> 1,
     StartDate |-> 711858, MapX |-> 4096, MapY |-> 1024]

\* A Welcome payload whose dedicated-flag byte is neither 0 nor 1: name "A",
\* version "1", flag 7, map "m", seed 0x04030201, landscape 2, width 64,
\* height 128.
WelcomeBadFlag ==
    <<65, 0, 49, 0, 7, 109, 0, 1, 2, 3, 4, 2, 9, 9, 9, 9, 64, 0, 128, 0>>

\* The total length of the one large packet of the wide stream, the largest
\* a 16-bit length field can declare.
WidePacketSize == Uint16Range - 1

SmallStream(id) ==
    CASE id = "dates"      -> DatePacket(0) \o DatePacket(31)
      [] id = "shutdown"   -> Packet(adminPacketServerSHUTDOWN, <<>>)
                              \o DatePacket(0)
      [] id = "welcome"    -> Packet(adminPacketServerWELCOME, WelcomePayload)
      [] id = "unknown"    -> Packet(200, <<9>>)
                              \o Packet(adminPacketServerPROTOCOL, <<>>)
      [] id = "undersized0" -> <<0, 0, adminPacketServerPROTOCOL>>
      [] id = "undersized1" -> <<1, 0>>
      [] id = "jan2"       -> DatePacket(1)
      [] id = "d365"       -> DatePacket(365) \o DatePacket(366)
      [] id = "welcome0"   -> Packet(adminPacketServerWELCOME,
                                     WelcomeBytes(WelcomeEmptyFields))
      [] id = "welcome3"   -> Packet(adminPacketServerWELCOME,
                                     WelcomeBytes(WelcomeLongFields))
                              \o Packet(adminPacketServerPROTOCOL, <<>>)
      [] id = "badflag"    -> Packet(adminPacketServerWELCOME,
                                     <<65, 0, 49, 0, 7, 109, 0, 1, 2, 3, 4, 2,
                                       9, 9, 9, 9, 64, 0, 128, 0>>)
                              \o DatePacket(0)
      [] id = "shortdate"  -> Packet(adminPacketServerDATE, <<1, 2>>)
                              \o Packet(adminPacketServerPROTOCOL, <<>>)
      [] id = "shortrcon"  -> Packet(adminPacketServerRCON, <<1>>)
                              \o Packet(adminPacketServerPROTOCOL, <<>>)
      [] id = "shortchat"  -> Packet(adminPacketServerCHAT, <<3, 0, 1, 0, 0>>)
                              \o Packet(adminPacketServerPROTOCOL, <<>>)
      [] id = "nonul"      -> Packet(adminPacketServerRCON_END, <<65, 66>>)
                              \o DatePacket(0)
      [] id = "repeat"     -> DatePacket(31) \o DatePacket(31)
      [] id = "rewelcome"  -> Packet(adminPacketServerWELCOME,
                                     WelcomeBytes(WelcomeLongFields))
                              \o Packet(adminPacketServerWELCOME,
                                        WelcomeBadFlag)
      [] id = "welcomes"   -> Packet(adminPacketServerWELCOME,
                                     WelcomeBytes(WelcomeLongFields))
                              \o Packet(adminPacketServerWELCOME,
                                        WelcomeBytes(WelcomeEmptyFields))
      [] id = "unknowns"   -> Packet(adminPacketServerWELCOME, WelcomePayload)
                              \o Packet(200, <<9, 0, 7>>)
                              \o Packet(105, <<>>)
                              \o DatePacket(0)
      [] id = "hello"      -> DatePacket(738099)       \* 2020-11-05
      [] id = "y10k"       -> DatePacket(3652425)      \* 10000-01-01

\* The wide stream: one PROTOCOL packet of WidePacketSize bytes (a payload
\* of zeros) followed by a Date packet for day 0.
WideTail == DatePacket(0)

StreamLen(id) ==
    IF id = "wide" THEN WidePacketSize + Len(WideTail)
    ELSE Len(SmallStream(id))

StreamByte(id, i) ==
    IF id = "wide"
    THEN IF i <= 2 THEN PutUint16(WidePacketSize)[i]
         ELSE IF i = 3 THEN adminPacketServerPROTOCOL
         ELSE IF i <= WidePacketSize THEN 0
         ELSE WideTail[i - WidePacketSize]
    ELSE SmallStream(id)[i]

ConnectStreams ==
    {"dates", "shutdown", "welcome", "unknown", "undersized0", "undersized1"}
SchedStreams == {"dates", "jan2", "hello", "y10k"}
DecodeStreams ==
    {"welcome", "welcome0", "welcome3", "dates", "d365", "hello", "repeat",
     "badflag", "shortdate", "shortrcon", "shortchat", "nonul",
     "rewelcome", "welcomes", "unknowns"}
WideStreams == {"wide"}

(***************************************************************************)
(* State.                                                                  *)
(***************************************************************************)
VARIABLES
    rconDaily, rconMonthly, rconYearly, \* OpenTTDServer command lists
    connection,     \* server.connection: 0 is nil, k the transport of attempt k
    connected,      \* server.connected: 0 is nil, k the channel made in attempt k
    disconnected,   \* server.disconnected, likewise
    attrs,          \* ServerName .. MapY
    password,       \* argument of Connect
    mainPc,         \* position of the main flow (main, then Connect)
    attempt,        \* number of net.Dial calls made so far
    readerPc,       \* position of the listenSocket goroutine started last
    readerChan,     \* the channel value that goroutine read from server.connected
    stream,         \* what the current transport delivers
    recvd,          \* bytes of the stream returned by Read so far
    lo,             \* bytes of the stream already cut off the front of chunk
    readErr,        \* the error returned by the last Read ("none": nil)
    queue,          \* commands of the running dateChanged call still to send
    wire,           \* messages written to the current transport, in order
    handled,        \* packets of the current transport handed to the decoders
    dateLog,        \* date-changed events of the current transport
    signals,        \* sends on server.disconnected completed by the reader
    leftBehind,     \* did the reader before the current one end with bytes in chunk
    crashed         \* "no", or why the process died (an unrecovered panic)

vars == <<rconDaily, rconMonthly, rconYearly, connection, connected,
          disconnected, attrs, password, mainPc, attempt, readerPc,
          readerChan, stream, recvd, lo, readErr, queue, wire, handled,
          dateLog, signals, leftBehind, crashed>>

regVars == <<rconDaily, rconMonthly, rconYearly>>
connVars == <<stream, recvd, lo, readErr, queue, handled, dateLog,
              leftBehind>>

\* The zero value of the cached server attributes.
ZeroAttrs ==
    [ServerName |-> <<>>, ServerVersion |-> <<>>, ServerDedicated |-> FALSE,
     MapName |-> <<>>, MapSeed |-> 0, MapLandscape |-> 0, MapX |-> 0,
     MapY |-> 0]

\* chunk, the reader's receive buffer: the received bytes not yet cut off.
ChunkLen == recvd - lo
ChunkByte(i) == StreamByte(stream, lo + i + 1)        \* chunk[i], 0-based
chunk == [i \in 1..ChunkLen |-> StreamByte(stream, lo + i)]

(***************************************************************************)
(* main and RegisterDateChange.                                            *)
(***************************************************************************)
Init ==
    /\ rconDaily = <<>> /\ rconMonthly = <<>> /\ rconYearly = <<>>
    /\ connection = 0 /\ connected = 0 /\ disconnected = 0
    /\ attrs = ZeroAttrs
    /\ password \in Passwords
    /\ mainPc = "main"
    /\ attempt = 0
    /\ readerPc = "none" /\ readerChan = 0
    /\ stream = "none" /\ recvd = 0 /\ lo = 0 /\ readErr = "none"
    /\ queue = <<>> /\ wire = <<>> /\ handled = <<>> /\ dateLog = <<>>
    /\ signals = 0
    /\ leftBehind = FALSE
    /\ crashed = "no"

Registered == Len(rconDaily) + Len(rconMonthly) + Len(rconYearly)

\* RegisterDateChange with the monthly branch appending to the daily list.
RegisterDateChangeMonthlyAsDaily(period, command) ==
    /\ crashed = "no" /\ mainPc = "main"
    /\ IF period = "daily" \/ period = "monthly"
       THEN /\ rconDaily' = Append(rconDaily, command)
            /\ UNCHANGED <<rconMonthly, rconYearly, crashed>>
       ELSE IF period = "yearly"
       THEN /\ rconYearly' = Append(rconYearly, command)
            /\ UNCHANGED <<rconDaily, rconMonthly, crashed>>
       ELSE /\ crashed' = "badperiod"
            /\ UNCHANGED regVars
    /\ UNCHANGED <<connection, connected, disconnected, attrs, password,
                   mainPc, attempt, readerPc, readerChan, wire, signals>>
    /\ UNCHANGED connVars

\* RegisterDateChange(period, command), called by main before Connect.
RegisterDateChange(period, command) ==
    /\ crashed = "no" /\ mainPc = "main"
    /\ IF period = "daily"
       THEN /\ rconDaily' = Append(rconDaily, command)
            /\ UNCHANGED <<rconMonthly, rconYearly, crashed>>
       ELSE IF period = "monthly"
       THEN /\ rconMonthly' = Append(rconMonthly, command)
            /\ UNCHANGED <<rconDaily, rconYearly, crashed>>
       ELSE IF period = "yearly"
       THEN /\ rconYearly' = Append(rconYearly, command)
            /\ UNCHANGED <<rconDaily, rconMonthly, crashed>>
       ELSE /\ crashed' = "badperiod"                \* panic("bad period")
            /\ UNCHANGED regVars
    /\ UNCHANGED <<connection, connected, disconnected, attrs, password,
                   mainPc, attempt, readerPc, readerChan, wire, signals>>
    /\ UNCHANGED connVars

Register ==
    /\ Registered < MaxReg
    /\ \E period \in Periods \cup BadPeriods, command \in Templates :
          RegisterDateChange(period, command)

\* main calls server.Connect(...): the loop is entered.
CallConnect ==
    /\ crashed = "no" /\ mainPc = "main"
    /\ mainPc' = "dial"
    /\ UNCHANGED <<connection, connected, disconnected, attrs, password,
                   attempt, readerPc, readerChan, wire, signals, crashed>>
    /\ UNCHANGED regVars /\ UNCHANGED connVars

(***************************************************************************)
(* Connect: the main flow.                                                 *)
(***************************************************************************)
DialFailPanics ==
    /\ crashed = "no" /\ mainPc = "dial" /\ attempt < MaxAttempts
    /\ attempt' = attempt + 1
    /\ crashed' = "dial"
    /\ UNCHANGED <<connection, connected, disconnected, attrs, password,
                   mainPc, readerPc, readerChan, wire, signals>>
    /\ UNCHANGED regVars /\ UNCHANGED connVars

\* net.Dial fails: log, time.Sleep, continue.
DialFail ==
    /\ crashed = "no" /\ mainPc = "dial" /\ attempt < MaxAttempts
    /\ attempt' = attempt + 1
    /\ mainPc' = "sleepFail"
    /\ UNCHANGED <<connection, connected, disconnected, attrs, password,
                   readerPc, readerChan, wire, signals, crashed>>
    /\ UNCHANGED regVars /\ UNCHANGED connVars

\* A successful net.Dial whose new reader inherits the receive buffer of the
\* reader before it.
DialOkKeepsChunk ==
    /\ crashed = "no" /\ mainPc = "dial" /\ attempt < MaxAttempts
    /\ \E s \in ConnectStreams : stream' = s
    /\ attempt' = attempt + 1
    /\ leftBehind' = (ChunkLen > 0)
    /\ queue' = <<>> /\ readErr' = "none"
    /\ wire' = <<>> /\ handled' = <<>> /\ dateLog' = <<>> /\ signals' = 0
    /\ readerPc' = "start" /\ readerChan' = 0
    /\ mainPc' = "make"
    /\ UNCHANGED <<connection, connected, disconnected, attrs, password,
                   crashed, recvd, lo>>
    /\ UNCHANGED regVars

\* net.Dial succeeds with a new transport, then `go server.listenSocket()`:
\* a new reader goroutine exists and has not run yet.
DialOk ==
    /\ crashed = "no" /\ mainPc = "dial" /\ attempt < MaxAttempts
    /\ \E s \in ConnectStreams : stream' = s
    /\ attempt' = attempt + 1
    /\ leftBehind' = (ChunkLen > 0)
    /\ recvd' = 0 /\ lo' = 0 /\ queue' = <<>> /\ readErr' = "none"
    /\ wire' = <<>> /\ handled' = <<>> /\ dateLog' = <<>> /\ signals' = 0
    /\ readerPc' = "start" /\ readerChan' = 0
    /\ mainPc' = "make"
    /\ UNCHANGED <<connection, connected, disconnected, attrs, password,
                   crashed>>
    /\ UNCHANGED regVars

\* The time.Sleep of either branch ends and the loop starts over.
Backoff ==
    /\ crashed = "no" /\ mainPc \in {"sleepFail", "sleepReconnect"}
    /\ mainPc' = "dial"
    /\ UNCHANGED <<connection, connected, disconnected, attrs, password,
                   attempt, readerPc, readerChan, wire, signals, crashed>>
    /\ UNCHANGED regVars /\ UNCHANGED connVars

\* server.connected = make(chan bool); server.disconnected = make(chan bool);
\* server.connection = conn.  The reader reads none of the three fields
\* between these assignments without having read server.connected first, so
\* they are one step.
MakeChannels ==
    /\ crashed = "no" /\ mainPc = "make"
    /\ connected' = attempt
    /\ disconnected' = attempt
    /\ connection' = attempt
    /\ mainPc' = "sendConnected"
    /\ UNCHANGED <<attrs, password, attempt, readerPc, readerChan, wire,
                   signals, crashed>>
    /\ UNCHANGED regVars /\ UNCHANGED connVars

\* The unbuffered `server.connected <- true` meets the reader's receive, if
\* the reader waits on the very channel the main flow sends on.  The reader
\* goes on to `var chunk []byte`.
ConnectedSignal ==
    /\ crashed = "no" /\ mainPc = "sendConnected"
    /\ readerPc = "waitConnected"
    /\ readerChan # 0 /\ readerChan = connected
    /\ mainPc' = "auth"
    /\ readerPc' = "read"
    /\ lo' = 0
    /\ UNCHANGED <<connection, connected, disconnected, attrs, password,
                   attempt, readerChan, wire, signals, crashed,
                   stream, recvd, readErr, queue, handled, dateLog,
                   leftBehind>>
    /\ UNCHANGED regVars

\* A Write on server.connection: a nil interface value panics.
WriteOrPanic(by, msg) ==
    IF connection = 0
    THEN /\ crashed' = "nilconn"
         /\ UNCHANGED wire
    ELSE /\ wire' = Append(wire, [by |-> by, msg |-> msg])
         /\ UNCHANGED crashed

\* The login message, written with server.connection.Write.
SendAuth ==
    /\ crashed = "no" /\ mainPc = "auth"
    /\ WriteOrPanic("main", AuthenticateBytes(password, BotName, BotVersion))
    /\ mainPc' = (IF connection = 0 THEN mainPc ELSE "freq")
    /\ UNCHANGED <<connection, connected, disconnected, attrs, password,
                   attempt, readerPc, readerChan, signals>>
    /\ UNCHANGED regVars /\ UNCHANGED connVars

\* server.sendSocket(adminPacketAdminUPDATE_FREQUENCY, ...)
SendFrequency ==
    /\ crashed = "no" /\ mainPc = "freq"
    /\ WriteOrPanic("main", UpdateFrequencyBytes)
    /\ mainPc' = (IF connection = 0 THEN mainPc ELSE "wait")
    /\ UNCHANGED <<connection, connected, disconnected, attrs, password,
                   attempt, readerPc, readerChan, signals>>
    /\ UNCHANGED regVars /\ UNCHANGED connVars

\* The main flow leaving its wait without the reader's send.
DisconnectedSignalWithoutSender ==
    /\ crashed = "no" /\ mainPc = "wait"
    /\ disconnected # 0
    /\ mainPc' = "sleepReconnect"
    /\ UNCHANGED <<connection, connected, disconnected, attrs, password,
                   attempt, readerPc, readerChan, wire, signals, crashed>>
    /\ UNCHANGED regVars /\ UNCHANGED connVars

\* `<-server.disconnected` meets the reader's `server.disconnected <- true`;
\* the reader returns, the main flow prints and sleeps.
DisconnectedSignal ==
    /\ crashed = "no" /\ mainPc = "wait" /\ readerPc = "signal"
    /\ disconnected # 0
    /\ mainPc' = "sleepReconnect"
    /\ readerPc' = "done"
    /\ signals' = signals + 1
    /\ UNCHANGED <<connection, connected, disconnected, attrs, password,
                   attempt, readerChan, wire, crashed>>
    /\ UNCHANGED regVars /\ UNCHANGED connVars

(***************************************************************************)
(* listenSocket: the reader goroutine.                                     *)
(***************************************************************************)
\* `<-server.connected` evaluates the field once; the goroutine then waits
\* on the channel value it read.  The read is not ordered with the main
\* flow's assignment of the field.
ReaderStart ==
    /\ crashed = "no" /\ readerPc = "start"
    /\ readerChan' = connected
    /\ readerPc' = "waitConnected"
    /\ UNCHANGED <<connection, connected, disconnected, attrs, password,
                   mainPc, attempt, wire, signals, crashed>>
    /\ UNCHANGED regVars /\ UNCHANGED connVars

\* The sizes a Read may return: a few bytes, or all that fits the buffer.
ReadSizes ==
    LET most == Min(StreamLen(stream) - recvd, ReadBufSize)
    IN  {n \in 1..most : n <= MaxSmallRead \/ n = most}

\* A Read made while commands of the running dateChanged are still unsent.
ReaderReadDuringRcon ==
    /\ crashed = "no" /\ readerPc \in {"read", "rcon"}
    /\ \E n \in ReadSizes : recvd' = recvd + n
    /\ readerPc' = "frame"
    /\ UNCHANGED <<connection, connected, disconnected, attrs, password,
                   mainPc, attempt, readerChan, wire, signals, crashed,
                   stream, lo, readErr, queue, handled, dateLog,
                   leftBehind>>
    /\ UNCHANGED regVars

\* server.connection.Read returns n bytes, appended to chunk.
ReaderRead ==
    /\ crashed = "no" /\ readerPc = "read"
    /\ \E n \in ReadSizes : recvd' = recvd + n
    /\ readerPc' = "frame"
    /\ UNCHANGED <<connection, connected, disconnected, attrs, password,
                   mainPc, attempt, readerChan, wire, signals, crashed,
                   stream, lo, readErr, queue, handled, dateLog,
                   leftBehind>>
    /\ UNCHANGED regVars

\* The errors a Read may return: a *net.OpError saying "read: connection
\* reset by peer", a *net.OpError saying anything else, any other error
\* (io.EOF when the server closes the connection).
ReadErrors == {"reset", "operror", "other"}

\* What listenSocket does with a Read error of the given kind: it clears the
\* handle and goes to signal, or (the *net.OpError with another text) falls
\* through to the plain return.
AfterReadError(kind) ==
    IF kind = "operror"
    THEN /\ readerPc' = "done"
         /\ UNCHANGED connection
    ELSE /\ readerPc' = "signal"
         /\ connection' = 0

ReaderReadError ==
    /\ crashed = "no" /\ readerPc = "read"
    /\ \E kind \in ReadErrors :
          /\ readErr' = kind
          /\ AfterReadError(kind)
    /\ UNCHANGED <<connected, disconnected, attrs, password,
                   mainPc, attempt, readerChan, wire, signals, crashed,
                   stream, recvd, lo, queue, handled, dateLog,
                   leftBehind>>
    /\ UNCHANGED regVars

(***************************************************************************)
(* The framing loop and the decoders.  packetData = chunk[3:packetSize] is *)
(* a window on chunk's backing array: an index expression is checked       *)
(* against its length, a slice expression against its capacity, which      *)
(* reaches at least to the end of chunk and, when the array has spare      *)
(* room, beyond it (those bytes are zero).                                 *)
(***************************************************************************)
packetSize == LEUint16(ChunkByte(0), ChunkByte(1))
packetType == ChunkByte(2)
PLen == packetSize - 3                                \* len(packetData)

\* The byte at index i of packetData's backing array.
PD(i) == IF lo + 3 + i < recvd THEN StreamByte(stream, lo + 3 + i + 1) ELSE 0

\* packetData[a:b] does not panic.
SliceOK(a, b, spare) ==
    /\ 0 <= a /\ a <= b
    /\ (lo + 3 + b <= recvd \/ spare)

\* packetData[i] does not panic.
IndexOK(i) == 0 <= i /\ i < PLen

\* extractString(packetData, start): the bytes from start up to the first
\* zero byte and the index after it.  The loop runs while i <= len(bytes),
\* so a scan that meets no zero byte indexes bytes[len(bytes)] and panics; a
\* start beyond the length returns ("", -1).
extractString(start) ==
    IF start > PLen THEN [panic |-> FALSE, str |-> <<>>, next |-> 0 - 1]
    ELSE IF start < 0 THEN [panic |-> TRUE, str |-> <<>>, next |-> 0 - 1]
    ELSE LET zeros == {j \in start..(PLen - 1) : PD(j) = 0}
         IN  IF zeros = {}
             THEN [panic |-> TRUE, str |-> <<>>, next |-> 0 - 1]
             ELSE LET j == CHOOSE z \in zeros : \A y \in zeros : z <= y
                  IN  [panic |-> FALSE,
                       str |-> [k \in 1..(j - start) |-> PD(start + k - 1)],
                       next |-> j + 1]

\* F(x) with x evaluated once.
Bind(x, F(_)) == CHOOSE r \in {F(v) : v \in {x}} : TRUE

\* WelcomeMap reading width and height right after the landscape byte.
WelcomeMapNoSkip(a3, e3, spare) ==
    LET n3 == e3.next
        a4 == [a3 EXCEPT !.MapName = e3.str]
        a5 == [a4 EXCEPT !.MapSeed =
                  LEUint32(PD(n3), PD(n3 + 1), PD(n3 + 2), PD(n3 + 3))]
        a6 == [a5 EXCEPT !.MapLandscape = PD(n3 + 4)]
        a7 == [a6 EXCEPT !.MapX = LEUint16(PD(n3 + 5), PD(n3 + 6))]
        a8 == [a7 EXCEPT !.MapY = LEUint16(PD(n3 + 7), PD(n3 + 8))]
    IN  IF e3.panic THEN [panic |-> TRUE, attrs |-> a3]
        ELSE IF ~SliceOK(n3, n3 + 4, spare) THEN [panic |-> TRUE, attrs |-> a4]
        ELSE IF ~IndexOK(n3 + 4) THEN [panic |-> TRUE, attrs |-> a5]
        ELSE [panic |-> FALSE, attrs |-> a8]

\* The Welcome decoder: the fields are assigned one after the other; a panic
\* keeps what was assigned before it.
\* ... from server.MapName on: e3 is what extractString returned for it.
WelcomeMap(a3, e3, spare) ==
    LET n3 == e3.next
        a4 == [a3 EXCEPT !.MapName = e3.str]
        a5 == [a4 EXCEPT !.MapSeed =
                  LEUint32(PD(n3), PD(n3 + 1), PD(n3 + 2), PD(n3 + 3))]
        a6 == [a5 EXCEPT !.MapLandscape = PD(n3 + 4)]
        a7 == [a6 EXCEPT !.MapX = LEUint16(PD(n3 + 9), PD(n3 + 10))]
        a8 == [a7 EXCEPT !.MapY = LEUint16(PD(n3 + 11), PD(n3 + 12))]
    IN  IF e3.panic THEN [panic |-> TRUE, attrs |-> a3]
        ELSE IF ~SliceOK(n3, n3 + 4, spare) THEN [panic |-> TRUE, attrs |-> a4]
        ELSE IF ~IndexOK(n3 + 4) THEN [panic |-> TRUE, attrs |-> a5]
        ELSE IF ~SliceOK(n3 + 9, n3 + 11, spare)
             THEN [panic |-> TRUE, attrs |-> a6]
        ELSE IF ~SliceOK(n3 + 11, n3 + 13, spare)
             THEN [panic |-> TRUE, attrs |-> a7]
        ELSE [panic |-> FALSE, attrs |-> a8]

\* ... from server.ServerVersion on: the dedicated flag is 0, 1, or left as
\* it was.
WelcomeVersion(a1, e2, spare) ==
    LET n2 == e2.next
        a2 == [a1 EXCEPT !.ServerVersion = e2.str]
        a3 == IF PD(n2) = 0 THEN [a2 EXCEPT !.ServerDedicated = FALSE]
              ELSE IF PD(n2) = 1 THEN [a2 EXCEPT !.ServerDedicated = TRUE]
              ELSE a2
        M(e3) == WelcomeMap(a3, e3, spare)
    IN  IF e2.panic THEN [panic |-> TRUE, attrs |-> a1]
        ELSE IF ~IndexOK(n2) THEN [panic |-> TRUE, attrs |-> a2]
        ELSE Bind(extractString(n2 + 1), M)

WelcomeName(e1, spare) ==
    LET a1 == [attrs EXCEPT !.ServerName = e1.str]
        V(e2) == WelcomeVersion(a1, e2, spare)
    IN  IF e1.panic THEN [panic |-> TRUE, attrs |-> attrs]
        ELSE Bind(extractString(e1.next), V)

DecodeWelcome(spare) ==
    LET N(e1) == WelcomeName(e1, spare)
    IN  Bind(extractString(0), N)

\* The Chat decoder logs only; it panics on a payload it cannot index.
ChatPanics(spare) ==
    \/ ~IndexOK(0) \/ ~IndexOK(1)
    \/ ~SliceOK(2, 6, spare)
    \/ extractString(6).panic
    \/ PLen < 8

\* The RCON reply decoder.
RconPanics(spare) == ~SliceOK(0, 2, spare) \/ extractString(2).panic

\* The RCON end decoder.
RconEndPanics == extractString(0).panic

MapSeq(f(_), s) == [i \in 1..Len(s) |-> f(s[i])]

\* dateChanged(dt): the commands it sends with rconCommand, in order.
dateChangedMonthlyEveryDay(dt) ==
    LET P(c) == processCommand(c, dt)
    IN  MapSeq(P, rconDaily) \o MapSeq(P, rconMonthly)
        \o (IF dt.day = 1 /\ dt.month = 1 THEN MapSeq(P, rconYearly) ELSE <<>>)

dateChangedYearlyFirst(dt) ==
    LET P(c) == processCommand(c, dt)
    IN  (IF dt.day = 1 /\ dt.month = 1 THEN MapSeq(P, rconYearly) ELSE <<>>)
        \o (IF dt.day = 1 THEN MapSeq(P, rconMonthly) ELSE <<>>)
        \o MapSeq(P, rconDaily)

dateChanged(dt) ==
    LET P(c) == processCommand(c, dt)
    IN  MapSeq(P, rconDaily)
        \o (IF dt.day = 1 THEN MapSeq(P, rconMonthly) ELSE <<>>)
        \o (IF dt.day = 1 /\ dt.month = 1 THEN MapSeq(P, rconYearly) ELSE <<>>)

\* `packetSize > uint16(len(chunk))`: the packet at the head is not complete.
IncompleteLenient == packetSize > Uint16Of(ChunkLen) + 1

Incomplete == packetSize > Uint16Of(ChunkLen)

\* `continue SocketLoop`
WaitForMore ==
    /\ readerPc' = "read"
    /\ UNCHANGED <<connection, attrs, lo, queue, handled, dateLog, crashed>>

\* chunk[2] or chunk[3:packetSize] panics: the goroutine dies with an
\* unrecovered panic, and the process with it.
FramerPanic ==
    /\ crashed' = "framer"
    /\ UNCHANGED <<connection, attrs, lo, readerPc, queue, handled, dateLog>>

\* chunk cut by the length of the payload only.
AdvanceByPayload == lo' = lo + PLen /\ readerPc' = "frame"

\* `chunk = chunk[packetSize:]` and the next round of the inner loop.
Advance == lo' = lo + packetSize /\ readerPc' = "frame"

DecoderPanic ==
    /\ crashed' = "decode"
    /\ UNCHANGED <<lo, readerPc>>

\* The if/else chain with a Shutdown branch that only logs.
DispatchShutdownIgnored(spare) ==
    /\ handled' = Append(handled,
                    [type |-> packetType, start |-> lo, size |-> packetSize,
                     had |-> ChunkLen])
    /\ IF packetType = adminPacketServerPROTOCOL
       THEN /\ Advance
            /\ UNCHANGED <<connection, attrs, queue, dateLog, crashed>>
       ELSE IF packetType = adminPacketServerWELCOME
       THEN LET r == DecodeWelcome(spare)
            IN  /\ attrs' = r.attrs
                /\ IF r.panic THEN DecoderPanic
                   ELSE Advance /\ UNCHANGED crashed
                /\ UNCHANGED <<connection, queue, dateLog>>
       ELSE IF packetType = adminPacketServerSHUTDOWN
       THEN /\ Advance
            /\ UNCHANGED <<connection, attrs, queue, dateLog, crashed>>
       ELSE IF packetType = adminPacketServerDATE
       THEN IF ~SliceOK(0, 4, spare)
            THEN /\ DecoderPanic
                 /\ UNCHANGED <<connection, attrs, queue, dateLog>>
            ELSE LET dt   == AddDate(LEUint32(PD(0), PD(1), PD(2), PD(3)))
                     cmds == dateChanged(dt)
                 IN  /\ dateLog' = Append(dateLog,
                                     [date |-> dt, cmds |-> <<>>])
                     /\ queue' = cmds
                     /\ IF cmds = <<>> THEN Advance
                        ELSE readerPc' = "rcon" /\ UNCHANGED lo
                     /\ UNCHANGED <<connection, attrs, crashed>>
       ELSE IF packetType = adminPacketServerCHAT
       THEN /\ IF ChatPanics(spare) THEN DecoderPanic
               ELSE Advance /\ UNCHANGED crashed
            /\ UNCHANGED <<connection, attrs, queue, dateLog>>
       ELSE IF packetType = adminPacketServerRCON
       THEN /\ IF RconPanics(spare) THEN DecoderPanic
               ELSE Advance /\ UNCHANGED crashed
            /\ UNCHANGED <<connection, attrs, queue, dateLog>>
       ELSE IF packetType = adminPacketServerRCON_END
       THEN /\ IF RconEndPanics THEN DecoderPanic
               ELSE Advance /\ UNCHANGED crashed
            /\ UNCHANGED <<connection, attrs, queue, dateLog>>
       ELSE /\ Advance
            /\ UNCHANGED <<connection, attrs, queue, dateLog, crashed>>

\* The if/else chain on packetType, up to the end of the loop body.
Dispatch(spare) ==
    /\ handled' = Append(handled,
                    [type |-> packetType, start |-> lo, size |-> packetSize,
                     had |-> ChunkLen])
    /\ IF packetType = adminPacketServerPROTOCOL
       THEN /\ Advance
            /\ UNCHANGED <<connection, attrs, queue, dateLog, crashed>>
       ELSE IF packetType = adminPacketServerWELCOME
       THEN LET r == DecodeWelcome(spare)
            IN  /\ attrs' = r.attrs
                /\ IF r.panic THEN DecoderPanic
                   ELSE Advance /\ UNCHANGED crashed
                /\ UNCHANGED <<connection, queue, dateLog>>
       ELSE IF packetType = adminPacketServerSHUTDOWN
       THEN /\ connection' = 0
            /\ readerPc' = "signal"
            /\ UNCHANGED <<attrs, lo, queue, dateLog, crashed>>
       ELSE IF packetType = adminPacketServerDATE
       THEN IF ~SliceOK(0, 4, spare)
            THEN /\ DecoderPanic
                 /\ UNCHANGED <<connection, attrs, queue, dateLog>>
            ELSE LET dt   == AddDate(LEUint32(PD(0), PD(1), PD(2), PD(3)))
                     cmds == dateChanged(dt)
                 IN  /\ dateLog' = Append(dateLog,
                                     [date |-> dt, cmds |-> <<>>])
                     /\ queue' = cmds
                     /\ IF cmds = <<>> THEN Advance
                        ELSE readerPc' = "rcon" /\ UNCHANGED lo
                     /\ UNCHANGED <<connection, attrs, crashed>>
       ELSE IF packetType = adminPacketServerCHAT
       THEN /\ IF ChatPanics(spare) THEN DecoderPanic
               ELSE Advance /\ UNCHANGED crashed
            /\ UNCHANGED <<connection, attrs, queue, dateLog>>
       ELSE IF packetType = adminPacketServerRCON
       THEN /\ IF RconPanics(spare) THEN DecoderPanic
               ELSE Advance /\ UNCHANGED crashed
            /\ UNCHANGED <<connection, attrs, queue, dateLog>>
       ELSE IF packetType = adminPacketServerRCON_END
       THEN /\ IF RconEndPanics THEN DecoderPanic
               ELSE Advance /\ UNCHANGED crashed
            /\ UNCHANGED <<connection, attrs, queue, dateLog>>
       ELSE /\ Advance
            /\ UNCHANGED <<connection, attrs, queue, dateLog, crashed>>

\* One round of the inner `for` loop of listenSocket.
ReaderFrame ==
    /\ crashed = "no" /\ readerPc = "frame"
    /\ \E spare \in BOOLEAN :
          IF ChunkLen < 2 \/ Incomplete THEN WaitForMore
          ELSE IF ChunkLen < 3 \/ packetSize < 3 THEN FramerPanic
          ELSE Dispatch(spare)
    /\ UNCHANGED <<connected, disconnected, password, mainPc, attempt,
                   readerChan, wire, signals, stream, recvd, readErr,
                   leftBehind>>
    /\ UNCHANGED regVars

\* One rconCommand call of the running dateChanged; after the last one the
\* Date branch ends and the packet is cut off chunk.
ReaderRcon ==
    /\ crashed = "no" /\ readerPc = "rcon"
    /\ WriteOrPanic("reader", rconCommandBytes(Head(queue)))
    /\ IF connection = 0
       THEN UNCHANGED <<queue, dateLog, lo, readerPc>>
       ELSE /\ queue' = Tail(queue)
            /\ dateLog' = [dateLog EXCEPT ![Len(dateLog)].cmds =
                              Append(@, Head(queue))]
            /\ IF Tail(queue) = <<>> THEN Advance
               ELSE UNCHANGED <<lo, readerPc>>
    /\ UNCHANGED <<connection, connected, disconnected, attrs, password,
                   mainPc, attempt, readerChan, signals, stream, recvd,
                   readErr, handled, leftBehind>>
    /\ UNCHANGED regVars

(***************************************************************************)
(* Specifications.                                                         *)
(***************************************************************************)
ReaderNext ==
    \/ ReaderRead
    \/ ReaderReadError
    \/ ReaderFrame
    \/ ReaderRcon

Next ==
    \/ Register
    \/ CallConnect
    \/ DialFail
    \/ DialOk
    \/ Backoff
    \/ MakeChannels
    \/ ConnectedSignal
    \/ SendAuth
    \/ SendFrequency
    \/ DisconnectedSignal
    \/ ReaderStart
    \/ ReaderNext

\* The whole program: main registers commands and calls Connect.
Spec == Init /\ [][Next]_vars

\* All sequences over S of length at most n.
SeqsUpTo(S, n) == UNION {[1..k -> S] : k \in 0..n}

\* The state of an established connection whose handshake has been written:
\* the main flow waits for the disconnection signal, the reader is about to
\* read.  The command lists and the stream are drawn from the given sets.
InitEstablished(dailies, others, streams) ==
    /\ rconDaily \in dailies /\ rconMonthly \in others /\ rconYearly \in others
    /\ Registered <= MaxList
    /\ connection = 1 /\ connected = 1 /\ disconnected = 1
    /\ attrs = ZeroAttrs
    /\ password = <<112, 119>>
    /\ mainPc = "wait"
    /\ attempt = 1
    /\ readerPc = "read" /\ readerChan = 1
    /\ stream \in streams /\ recvd = 0 /\ lo = 0 /\ readErr = "none"
    /\ queue = <<>> /\ handled = <<>> /\ dateLog = <<>>
    /\ wire = <<[by |-> "main",
                 msg |-> AuthenticateBytes(password, BotName, BotVersion)],
                [by |-> "main", msg |-> UpdateFrequencyBytes]>>
    /\ signals = 0
    /\ leftBehind = FALSE
    /\ crashed = "no"

\* The reader of an established connection receiving Date packets, with up
\* to MaxList registered commands.
InitSched ==
    InitEstablished(SeqsUpTo(SchedTemplates, MaxList),
                    SeqsUpTo(SchedTemplates, MaxList), SchedStreams)
SpecSched == InitSched /\ [][ReaderNext]_vars

\* The reader of an established connection receiving the wide stream, with
\* one daily command registered.
InitWide == InitEstablished({<<TplSave>>}, {<<>>}, WideStreams)
SpecWide == InitWide /\ [][ReaderNext]_vars

\* The reader of an established connection receiving Welcome packets, Date
\* packets and packets with payloads too short for their type, with at most
\* one command registered per period.
InitDecode ==
    InitEstablished({<<>>, <<TplSave>>}, {<<>>, <<TplSave>>}, DecodeStreams)
SpecDecode == InitDecode /\ [][ReaderNext]_vars

\* main's registration loops alone, before Connect is called.
RegisterOnly ==
    /\ Registered < MaxRegOnly
    /\ \E period \in Periods \cup BadPeriods, command \in Templates :
          RegisterDateChange(period, command)

SpecReg == Init /\ [][RegisterOnly]_vars

\* An active connection seen from both sides: the reader receiving Date
\* packets with up to MaxList commands registered, and the main flow inside
\* `<-server.disconnected`, its only step until the reader signals.
ActiveStreams == {"dates", "repeat", "jan2"}
InitActive ==
    InitEstablished({<<>>, <<TplHello, TplTwice>>}, {<<>>, <<TplTwice>>},
                    ActiveStreams)
ActiveNext ==
    \/ ReaderNext
    \/ DisconnectedSignal
SpecActive == InitActive /\ [][ActiveNext]_vars

(***************************************************************************)
(* Properties.                                                             *)
(***************************************************************************)
Last(seq) == seq[Len(seq)]
Range(seq) == {seq[k] : k \in DOMAIN seq}
Count(x, seq) == Cardinality({k \in DOMAIN seq : seq[k] = x})

\* The reader goroutine of the current transport is inside its receive loop
\* (or has left it).
ReaderLooping == readerPc \in {"read", "frame", "rcon", "signal", "done"}

\* The messages written so far by the main flow / by the reader.
MsgsBy(who) ==
    LET ByWho(w) == w.by = who
        picked == SelectSeq(wire, ByWho)
    IN  [k \in 1..Len(picked) |-> picked[k].msg]

\* The packets of a stream, cut at the declared lengths from offset off on.
RECURSIVE PacketsFrom(_, _)
PacketsFrom(id, off) ==
    IF off + 2 > StreamLen(id) THEN <<>>
    ELSE LET size == LEUint16(StreamByte(id, off + 1), StreamByte(id, off + 2))
         IN  IF size < 3 \/ off + size > StreamLen(id) THEN <<>>
             ELSE <<[type |-> StreamByte(id, off + 3), start |-> off,
                     size |-> size]>> \o PacketsFrom(id, off + size)

RECURSIVE SumSizes(_)
SumSizes(ps) == IF ps = <<>> THEN 0 ELSE Head(ps).size + SumSizes(Tail(ps))

\* A valid packet stream: packets with declared lengths >= 3, back to back.
ValidStream(id) == SumSizes(PacketsFrom(id, 0)) = StreamLen(id)

HandledPackets ==
    [k \in 1..Len(handled) |->
        [type |-> handled[k].type, start |-> handled[k].start,
         size |-> handled[k].size]]

\* C1: framing is split-invariant.  Once every byte of a valid stream has
\* been read, in whatever division into reads, and the reader is back at
\* the transport, the packets handed to the decoders are the packets of the
\* stream, type and payload bounds, in order (a Shutdown packet ends the
\* reader and is excluded by the reader being back at the transport).
C1_SplitInvariantFraming ==
    (/\ crashed = "no" /\ readerPc = "read"
     /\ recvd = StreamLen(stream) /\ ValidStream(stream))
    => HandledPackets = PacketsFrom(stream, 0)

\* C2: a length header declaring 0 or 1 at the head of the receive buffer
\* is a fault of the connection only: the process does not die in the
\* framing loop on it.
C2_UndersizedHeaderIsConnectionFault ==
    ~(/\ crashed = "framer"
      /\ ChunkLen >= 2
      /\ packetSize \in {0, 1})

\* C3: a reader that has ended on a Read error, whatever the error, has
\* signalled disconnection exactly once.
C3_ReadErrorSignalsDisconnect ==
    (readErr # "none" /\ readerPc = "done") => signals = 1

\* The date-changed event number i has run to its end.
EventDone(i) == i < Len(dateLog) \/ readerPc # "rcon"

\* The commands of list as they read on date dt.
Expanded(list, dt) == [k \in DOMAIN list |-> processCommand(list[k], dt)]

\* C4: every date-changed event dispatches each daily command once, each
\* monthly command once iff the day of the month is 1, each yearly command
\* once iff the date is January 1, and nothing else; a yearly command alone
\* is sent once over the events of January 1 and February 1.
C4_DispatchCounts ==
    /\ \A i \in DOMAIN dateLog :
          EventDone(i) =>
             LET dt   == dateLog[i].date
                 sent == dateLog[i].cmds
                 due  == Expanded(rconDaily, dt)
                         \o (IF dt.day = 1
                             THEN Expanded(rconMonthly, dt) ELSE <<>>)
                         \o (IF dt.day = 1 /\ dt.month = 1
                             THEN Expanded(rconYearly, dt) ELSE <<>>)
             IN  \A o \in Range(sent) \cup Range(due) :
                    Count(o, sent) = Count(o, due)
    /\ (/\ stream = "dates" /\ Len(dateLog) = 2 /\ EventDone(2)
        /\ rconDaily = <<>> /\ rconMonthly = <<>>)
       => Len(MsgsBy("reader")) = Len(rconYearly)

C4_Witness ==
    /\ stream = "dates" /\ Len(dateLog) = 2 /\ EventDone(2)
    /\ rconDaily = <<>> /\ rconMonthly = <<>> /\ Len(rconYearly) = 1
    /\ dateLog[1].date = [year |-> 0, month |-> 1, day |-> 1]
    /\ dateLog[2].date = [year |-> 0, month |-> 2, day |-> 1]
    /\ Len(MsgsBy("reader")) = 1

\* The template whose expansion is the k-th command of an event on date dt:
\* the daily list, then the monthly list, then the yearly list.
TemplateAt(k, dt) ==
    LET m == IF dt.day = 1 THEN rconMonthly ELSE <<>>
        y == IF dt.day = 1 /\ dt.month = 1 THEN rconYearly ELSE <<>>
    IN  IF k <= Len(rconDaily) THEN rconDaily[k]
        ELSE IF k <= Len(rconDaily) + Len(m) THEN m[k - Len(rconDaily)]
        ELSE y[k - Len(rconDaily) - Len(m)]

EventSize(dt) ==
    Len(rconDaily)
    + (IF dt.day = 1 THEN Len(rconMonthly) ELSE 0)
    + (IF dt.day = 1 /\ dt.month = 1 THEN Len(rconYearly) ELSE 0)

RECURSIVE AllCmds(_)
AllCmds(log) ==
    IF log = <<>> THEN <<>> ELSE Head(log).cmds \o AllCmds(Tail(log))

\* C5: within one event the RCON commands go out as the daily commands in
\* registration order, then the monthly ones (day 1), then the yearly ones
\* (January 1); the transport sees them in that order, event after event;
\* a text registered as daily and as monthly goes out twice on a day 1.
C5_DispatchOrder ==
    /\ \A i \in DOMAIN dateLog :
          LET dt   == dateLog[i].date
              sent == dateLog[i].cmds
          IN  /\ Len(sent) <= EventSize(dt)
              /\ EventDone(i) => Len(sent) = EventSize(dt)
              /\ \A k \in DOMAIN sent :
                    sent[k] = processCommand(TemplateAt(k, dt), dt)
    /\ LET cmds == AllCmds(dateLog)
       IN  MsgsBy("reader") =
              [k \in 1..Len(cmds) |-> rconCommandBytes(cmds[k])]

C5_Witness ==
    /\ stream = "dates" /\ Len(dateLog) = 2 /\ EventDone(2)
    /\ rconDaily = <<TplHello>> /\ rconMonthly = <<TplHello>>
    /\ rconYearly = <<TplTwice>>
    /\ Len(MsgsBy("reader")) = 5
    /\ dateLog[1].cmds = <<processCommand(TplHello, dateLog[1].date),
                           processCommand(TplHello, dateLog[1].date),
                           processCommand(TplTwice, dateLog[1].date)>>
    /\ dateLog[2].cmds = <<processCommand(TplHello, dateLog[2].date),
                           processCommand(TplHello, dateLog[2].date)>>

\* The content of a message after its size and type bytes.
PayloadOf(m) == SubSeq(m, 4, Len(m))

IsAuthenticate(m) ==
    /\ Len(m) >= 3 /\ m[3] = 0
    /\ PayloadOf(m) = password \o <<0>> \o BotName \o <<0>> \o BotVersion \o <<0>>

IsDailyDateFrequency(m) ==
    /\ Len(m) >= 3 /\ m[3] = 2
    /\ PayloadOf(m) = <<0, 0, 2, 0>>

\* C6: on every established transport, first or later, the main flow
\* writes the Authenticate message (type 0: password, bot name, bot version,
\* each followed by a zero byte) and then the Set Update Frequency message
\* (type 2: category 0, frequency 0x02, little-endian); the frequency message
\* never comes first, both are written when the main flow waits for the
\* disconnection signal, and the main flow does not die in between.
C6_HandshakeMessages ==
    LET mm == MsgsBy("main")
    IN  /\ Len(mm) <= 2
        /\ Len(mm) >= 1 => IsAuthenticate(mm[1])
        /\ Len(mm) = 2 => IsDailyDateFrequency(mm[2])
        /\ mainPc = "freq" => Len(mm) = 1
        /\ mainPc \in {"wait", "sleepReconnect"} => Len(mm) = 2
        /\ ~(crashed = "nilconn" /\ mainPc \in {"auth", "freq"})

\* C7: after the reader has decoded a Shutdown packet the process keeps
\* running.
C7_ShutdownKeepsProcessRunning ==
    (handled # <<>> /\ Last(handled).type = adminPacketServerSHUTDOWN)
    => crashed = "no"

\* C8: a net.Dial call that establishes no transport (it starts no reader)
\* writes nothing, starts nothing, does not end the process and leaves the
\* main flow in its fixed sleep, which only leads back to net.Dial; the
\* next net.Dial can then be made.
C8_DialFailureRetries ==
    /\ [][(attempt' = attempt + 1 /\ readerPc' # "start")
          => /\ mainPc' = "sleepFail" /\ crashed' = "no"
             /\ readerPc' = readerPc /\ wire' = wire
             /\ connection' = connection /\ connected' = connected
             /\ disconnected' = disconnected]_vars
    /\ [][mainPc = "sleepFail" => mainPc' \in {"sleepFail", "dial"}]_vars
    /\ [](mainPc = "sleepFail" => (crashed = "no" /\ ENABLED Backoff))
    /\ []((mainPc = "dial" /\ attempt < MaxAttempts)
          => (ENABLED DialFail /\ ENABLED DialOk))

C8_Witness ==
    /\ attempt = MaxAttempts /\ mainPc = "sleepFail"
    /\ readerPc = "none" /\ wire = <<>> /\ connection = 0

\* C9: a packet is handed to the decoders only when chunk held at least its
\* declared total length; the handed packets lie back to back from the
\* first received byte on; and chunk starts at the start or at the end of
\* the packet handed last, so bytes leave it only as whole handed packets.
C9_FramerInvariant ==
    ReaderLooping =>
       /\ \A k \in DOMAIN handled :
             /\ handled[k].size >= 3
             /\ handled[k].size <= handled[k].had
             /\ handled[k].start + handled[k].size <= recvd
             /\ handled[k].start =
                   (IF k = 1 THEN 0
                    ELSE handled[k - 1].start + handled[k - 1].size)
       /\ lo <= recvd
       /\ IF handled = <<>> THEN lo = 0
          ELSE lo \in {Last(handled).start,
                       Last(handled).start + Last(handled).size}

C9_Witness ==
    /\ readerPc = "read" /\ handled # <<>>
    /\ ChunkLen >= 2 /\ ChunkLen < packetSize
    /\ lo = Last(handled).start + Last(handled).size

\* The decimal fields of a date.
Year4(y) == [i \in 1..4 |-> 48 + ((y \div (10 ^ (4 - i))) % 10)]
YearField(y) ==
    IF y < 10000 THEN Year4(y)
    ELSE LET w == CHOOSE n \in 5..10 : (y \div (10 ^ (n - 1))) \in 1..9
         IN  [i \in 1..w |-> 48 + ((y \div (10 ^ (w - i))) % 10)]
TwoDigits(n) == <<48 + ((n \div 10) % 10), 48 + (n % 10)>>

\* The template t read left to right, every "%Y", "%M", "%D" replaced by the
\* given field and every other character kept.
RECURSIVE SubstFrom(_, _, _, _, _)
SubstFrom(t, i, yf, mf, df) ==
    IF i > Len(t) THEN <<>>
    ELSE IF t[i] = 37 /\ i < Len(t) /\ t[i + 1] \in {89, 77, 68}
         THEN (IF t[i + 1] = 89 THEN yf ELSE IF t[i + 1] = 77 THEN mf ELSE df)
              \o SubstFrom(t, i + 2, yf, mf, df)
         ELSE <<t[i]>> \o SubstFrom(t, i + 1, yf, mf, df)

HelloExpanded ==
    <<115, 97, 121, 32, 34, 72, 101, 108, 108, 111, 32,
      50, 48, 50, 48, 45, 49, 49, 45, 48, 53, 34>>  \* say "Hello 2020-11-05"

\* C10 as claimed: every command sent is its template with each %Y replaced
\* by the year as exactly 4 digits, %M and %D by 2 digits.
C10_YearExactlyFourDigits ==
    \A i \in DOMAIN dateLog :
       LET dt == dateLog[i].date
       IN  \A k \in DOMAIN dateLog[i].cmds :
              dateLog[i].cmds[k] =
                 SubstFrom(TemplateAt(k, dt), 1, Year4(dt.year),
                           TwoDigits(dt.month), TwoDigits(dt.day))

\* C10, amended: every command sent is its template with each %Y replaced
\* by the decimal year padded with zeros to at least 4 digits (exactly 4 up
\* to year 9999, all its digits from year 10000 on), each %M and %D by
\* exactly 2 digits, every other character kept; the Hello template on
\* 2020-11-05 gives say "Hello 2020-11-05".
C10_SubstitutionPadded ==
    \A i \in DOMAIN dateLog :
       LET dt == dateLog[i].date
       IN  \A k \in DOMAIN dateLog[i].cmds :
              /\ dateLog[i].cmds[k] =
                    SubstFrom(TemplateAt(k, dt), 1, YearField(dt.year),
                              TwoDigits(dt.month), TwoDigits(dt.day))
              /\ Len(YearField(dt.year)) >= 4
              /\ dt.year <= 9999 => Len(YearField(dt.year)) = 4
              /\ (TemplateAt(k, dt) = TplHello
                  /\ dt = [year |-> 2020, month |-> 11, day |-> 5])
                 => dateLog[i].cmds[k] = HelloExpanded

C10_Witness ==
    /\ Len(dateLog) = 1 /\ EventDone(1)
    /\ dateLog[1].date = [year |-> 10000, month |-> 1, day |-> 1]
    /\ rconYearly = <<TplTwice>> /\ rconDaily = <<TplHello>>
    /\ Len(dateLog[1].cmds) = 2

\* C11: a monthly command runs once per game month.  With one monthly
\* command and nothing else registered, no two date-changed events of the
\* same game year and month both send it, also when the same game date is
\* delivered more than once.
C11_MonthlyOncePerMonth ==
    (rconDaily = <<>> /\ rconYearly = <<>> /\ Len(rconMonthly) = 1)
    => \A i, j \in DOMAIN dateLog :
          (/\ i < j
           /\ dateLog[i].date.year = dateLog[j].date.year
           /\ dateLog[i].date.month = dateLog[j].date.month)
          => ~(dateLog[i].cmds # <<>> /\ dateLog[j].cmds # <<>>)

\* C12: a RegisterDateChange call with a period other than "daily",
\* "monthly", "yearly" ends the process and changes no list; with one of the
\* three it appends the command at the end of that period's list and leaves
\* the other two lists and all connection state as they were.
C12_RegisterDateChange ==
    [][\A period \in Periods \cup BadPeriods, command \in Templates :
          RegisterDateChange(period, command)
          => /\ period = "daily"
                => /\ rconDaily' = rconDaily \o <<command>>
                   /\ rconMonthly' = rconMonthly /\ rconYearly' = rconYearly
             /\ period = "monthly"
                => /\ rconMonthly' = rconMonthly \o <<command>>
                   /\ rconDaily' = rconDaily /\ rconYearly' = rconYearly
             /\ period = "yearly"
                => /\ rconYearly' = rconYearly \o <<command>>
                   /\ rconDaily' = rconDaily /\ rconMonthly' = rconMonthly
             /\ period \in {"daily", "monthly", "yearly"} <=> crashed' = "no"
             /\ period \notin {"daily", "monthly", "yearly"}
                => /\ crashed' = "badperiod"
                   /\ rconDaily' = rconDaily /\ rconMonthly' = rconMonthly
                   /\ rconYearly' = rconYearly
             /\ connection' = connection /\ connected' = connected
             /\ disconnected' = disconnected /\ attrs' = attrs
             /\ wire' = wire /\ readerPc' = readerPc /\ attempt' = attempt
             /\ stream' = stream /\ recvd' = recvd /\ lo' = lo]_vars

C12_Witness ==
    /\ rconDaily = <<TplSave>>
    /\ rconMonthly = <<TplShot, TplSave>>
    /\ rconYearly = <<>>
    /\ crashed = "no" /\ connection = 0 /\ wire = <<>>

\* C13: every message written to a transport begins with its own length, 3
\* plus the payload byte count, as a 2-byte little-endian field, followed by
\* the type byte and the payload; also when that total is 256 or more.
C13_LengthField ==
    \A k \in DOMAIN wire :
       LET m == wire[k].msg
       IN  /\ Len(m) >= 3
           /\ LEUint16(m[1], m[2]) = 3 + Len(PayloadOf(m))

\* The attribute values a well-formed Welcome stream carries.
AttrsOf(f) == [a \in DOMAIN ZeroAttrs |-> f[a]]
WelcomeExpected(id) ==
    CASE id = "welcome"  ->
           [ServerName |-> <<65>>, ServerVersion |-> <<49>>,
            ServerDedicated |-> TRUE, MapName |-> <<109>>,
            MapSeed |-> 67305985, MapLandscape |-> 2, MapX |-> 64,
            MapY |-> 128]
      [] id = "welcome0" -> AttrsOf(WelcomeEmptyFields)
      [] id = "welcome3" -> AttrsOf(WelcomeLongFields)

\* C14: once the Welcome packet of a well-formed Welcome stream has been
\* decoded, the cached attributes are exactly the values the payload was
\* written from, for empty and for longer strings, and the decoder did not
\* fail.
C14_WelcomeDecodes ==
    \A id \in {"welcome", "welcome0", "welcome3"} :
       (/\ stream = id /\ handled # <<>>
        /\ handled[1].type = adminPacketServerWELCOME)
       => /\ crashed = "no"
          /\ attrs = WelcomeExpected(id)

C14_Witness ==
    /\ stream = "welcome3" /\ Len(handled) = 2 /\ readerPc = "read"
    /\ attrs.ServerName = <<97, 98, 99>> /\ attrs.MapName = <<109, 32, 121>>
    /\ attrs.ServerDedicated /\ attrs.MapSeed = 2018915346
    /\ attrs.MapX = 4096 /\ attrs.MapY = 1024

\* The date of the k-th date-changed event is year-month-day.
EventDateIs(k, y, m, d) ==
    Len(dateLog) >= k => dateLog[k].date = [year |-> y, month |-> m, day |-> d]

\* C15 as claimed: day count 365 decodes to the date one year after the
\* epoch, January 1 of year 1.
C15_Day365IsOneYearLater ==
    stream = "d365" => EventDateIs(1, 1, 1, 1)

\* C15, amended: the Date payload is a 4-byte little-endian day count from
\* January 1 of year 0.  Day 0 is 0000-01-01 and day 31 is 0000-02-01; year
\* 0 is a leap year, so day 365 is 0000-12-31 and day 366 is 0001-01-01;
\* the three-byte count 738099 is 2020-11-05.
C15_DateDecoding ==
    /\ stream = "dates" => EventDateIs(1, 0, 1, 1) /\ EventDateIs(2, 0, 2, 1)
    /\ stream = "d365" => EventDateIs(1, 0, 12, 31) /\ EventDateIs(2, 1, 1, 1)
    /\ stream = "hello" => EventDateIs(1, 2020, 11, 5)
    /\ (stream \in {"dates", "d365", "hello"} /\ recvd = StreamLen(stream)
        /\ readerPc = "read")
       => (crashed = "no" /\ Len(dateLog) = Len(PacketsFrom(stream, 0)))

C15_Witness ==
    /\ stream = "d365" /\ Len(dateLog) = 2 /\ readerPc = "read"
    /\ dateLog[1].date = [year |-> 0, month |-> 12, day |-> 31]
    /\ dateLog[1].cmds # <<>>

\* C16: the reader of an attempt waits on the connected channel made in that
\* attempt, so the main flow's send on it is always received (the two never
\* wait on different channels), and the reader is in its receive loop only
\* with the transport handle of its attempt assigned.
C16_ConnectedSignalReceived ==
    /\ readerPc \in {"read", "frame", "rcon"} => connection = attempt
    /\ ~(/\ mainPc = "sendConnected" /\ readerPc = "waitConnected"
         /\ readerChan # connected)

\* C17: the process never dies on a write through a cleared (nil) transport
\* handle: every Authenticate, Set Update Frequency and RCON write finds the
\* handle of the current connection.
C17_NoWriteThroughNilHandle == crashed # "nilconn"

\* C18: at most one reader is live.  A step starts a reader exactly when it
\* is a net.Dial that establishes a transport, one reader per such step, and
\* at that step the reader started before, if any, has left its receive
\* loop and returned.
C18_OneReaderLive ==
    /\ [][(attempt' = attempt + 1 /\ mainPc' = "make")
          <=> (readerPc' = "start" /\ attempt' # attempt)]_vars
    /\ [][readerPc' = "start" /\ attempt' # attempt
          => readerPc \in {"none", "done"}]_vars
    /\ [][readerPc' = "start" => (readerPc = "start" \/ attempt' # attempt)]_vars
    /\ [](readerPc = "none" <=> (attempt = 0 \/ (stream = "none")))

C18_Witness ==
    /\ attempt = 2 /\ readerPc = "read" /\ mainPc = "wait"
    /\ stream # "none" /\ crashed = "no"

\* The payload of the packet at the head of chunk holds no zero byte from
\* index start on.
NoZeroFrom(start) == \A j \in start..(PLen - 1) : PD(j) # 0

\* The packet at the head of chunk is complete and its payload is too short
\* for the fixed fields of its type.
ShortForType ==
    \/ packetType = adminPacketServerDATE /\ PLen < 4
    \/ packetType = adminPacketServerRCON /\ PLen < 2
    \/ packetType = adminPacketServerCHAT /\ PLen < 14

\* C19: a complete packet with a payload malformed for its type does not
\* end the process: the reader never dies in the decoder of a Date, RCON
\* reply or Chat packet too short for its fixed fields, and once all bytes
\* of such a stream are read and the reader is back at the transport, every
\* packet of the stream has been passed and a short Date packet has
\* started no date-changed event.
C19_MalformedPayloadAbandoned ==
    /\ ~(crashed = "decode" /\ ShortForType)
    /\ (/\ stream \in {"shortdate", "shortrcon", "shortchat", "badflag"}
        /\ recvd = StreamLen(stream) /\ readerPc = "read" /\ crashed = "no")
       => /\ HandledPackets = PacketsFrom(stream, 0)
          /\ stream = "shortdate" => dateLog = <<>>

\* C20: extractString on a payload with no zero byte at or after the start
\* offset does not index past the end of the payload: the reader never dies
\* in a string decoder on such a payload.
C20_ExtractStringInBounds ==
    ~(/\ crashed = "decode"
      /\ \/ packetType = adminPacketServerRCON_END /\ NoZeroFrom(0)
         \/ packetType = adminPacketServerRCON /\ PLen >= 2 /\ NoZeroFrom(2)
         \/ packetType = adminPacketServerCHAT /\ PLen >= 6 /\ NoZeroFrom(6)
         \/ packetType = adminPacketServerWELCOME /\ NoZeroFrom(0))

\* C21: whenever chunk holds at least the declared total length (>= 3) of
\* the packet at its head, that packet is extracted before the next Read:
\* the reader is never back at the transport with a complete packet at the
\* head of chunk, whatever the length of chunk, above 65535 included.
C21_CompletePacketExtracted ==
    (crashed = "no" /\ readerPc = "read" /\ ChunkLen >= 2)
    => ~(packetSize >= 3 /\ ChunkLen >= packetSize)

\* A Welcome packet has been handed to the decoder on the current transport.
WelcomeSeen ==
    \E k \in DOMAIN handled : handled[k].type = adminPacketServerWELCOME

\* C22: from the start of every connection attempt, also one that follows a
\* disconnect, until a Welcome packet is decoded on that connection, all
\* cached server attributes are empty/zero: no value decoded on an earlier
\* connection is visible on a later one.
C22_AttrsResetOnReconnect == ~WelcomeSeen => attrs = ZeroAttrs

\* The second packet of the stream has been processed to its end.
SecondProcessed ==
    /\ crashed = "no" /\ Len(handled) >= 2
    /\ lo >= handled[2].start + handled[2].size

\* C23: after a Welcome packet has been processed, every cached attribute
\* holds a value decoded from that packet and none keeps the value of an
\* earlier Welcome.  After a second Welcome on the same connection, a
\* well-formed one or one whose flag byte is neither 0 nor 1, the strings,
\* seed, landscape, width and height are those of the second packet, and the
\* dedicated flag is true only if the flag byte of the second packet is 1.
C23_WelcomeReplacesWholesale ==
    /\ (stream = "welcomes" /\ SecondProcessed)
       => attrs = AttrsOf(WelcomeEmptyFields)
    /\ (stream = "rewelcome" /\ SecondProcessed)
       => /\ [attrs EXCEPT !.ServerDedicated = FALSE] =
                [ServerName |-> <<65>>, ServerVersion |-> <<49>>,
                 ServerDedicated |-> FALSE, MapName |-> <<109>>,
                 MapSeed |-> 67305985, MapLandscape |-> 2, MapX |-> 64,
                 MapY |-> 128]
          /\ attrs.ServerDedicated => WelcomeBadFlag[5] = 1

\* C24: no RCON command is written to a connection before the Authenticate
\* message of that connection: every message the reader writes comes after
\* an Authenticate message written by the main flow on the same transport.
C24_RconAfterAuthenticate ==
    \A k \in DOMAIN wire :
       wire[k].by = "reader"
       => \E j \in 1..(k - 1) :
             wire[j].by = "main" /\ IsAuthenticate(wire[j].msg)

\* Every date-changed event logged so far has sent all its commands.
AllEventsComplete ==
    /\ queue = <<>>
    /\ \A i \in DOMAIN dateLog :
          Len(dateLog[i].cmds) = EventSize(dateLog[i].date)

\* C25: the RCON commands of a Date packet are all written by the reader
\* before the next packet is decoded and before the next Read.  While
\* commands of an event are unsent the reader neither reads nor decodes;
\* at every Read and every decode all earlier events are complete; the
\* messages on the transport after the handshake are the commands of the
\* events, event after event, all written by the reader; and a write made
\* while the main flow waits for the disconnection signal is the reader's
\* next pending command.
C25_RconSynchronous ==
    /\ [][readerPc = "rcon"
          => /\ recvd' = recvd /\ handled' = handled
             /\ Len(dateLog') = Len(dateLog)]_vars
    /\ [][(recvd' # recvd \/ handled' # handled) => AllEventsComplete]_vars
    /\ [](LET cmds == AllCmds(dateLog)
          IN  /\ Len(wire) = 2 + Len(cmds)
              /\ \A k \in DOMAIN cmds :
                    wire[2 + k] = [by |-> "reader",
                                   msg |-> rconCommandBytes(cmds[k])])
    /\ [][(mainPc = "wait" /\ wire' # wire)
          => /\ readerPc = "rcon" /\ mainPc' = "wait"
             /\ wire' = Append(wire, [by |-> "reader",
                                      msg |-> rconCommandBytes(Head(queue))])
         ]_vars

C25_Witness ==
    /\ stream = "dates" /\ Len(dateLog) = 2 /\ readerPc = "read"
    /\ rconDaily = <<TplHello, TplTwice>> /\ rconMonthly = <<TplTwice>>
    /\ Len(dateLog[1].cmds) = 3 /\ Len(dateLog[2].cmds) = 3
    /\ Len(wire) = 8 /\ mainPc = "wait"

\* The packet decoded last on the current transport is a Shutdown packet.
ShutdownDecoded ==
    handled # <<>> /\ Last(handled).type = adminPacketServerSHUTDOWN

\* C26: once a Shutdown packet has been decoded on a connection, nothing
\* more is decoded on it and no RCON command is sent for it: a Shutdown is
\* always the last packet handled on its transport, and from then on, until
\* the next net.Dial, the reader hands over no packet, starts no
\* date-changed event, writes nothing and does not read, also when complete
\* packets lie behind the Shutdown packet in chunk.
C26_NothingAfterShutdown ==
    /\ [](\A k \in DOMAIN handled :
             handled[k].type = adminPacketServerSHUTDOWN => k = Len(handled))
    /\ [][(ShutdownDecoded /\ attempt' = attempt)
          => /\ handled' = handled /\ dateLog' = dateLog
             /\ recvd' = recvd /\ lo' = lo
             /\ MsgsBy("reader")' = MsgsBy("reader")
             /\ readerPc' \in {"signal", "done"}]_vars

C26_Witness ==
    /\ stream = "shutdown" /\ recvd = StreamLen("shutdown")
    /\ Len(handled) = 1 /\ ShutdownDecoded
    /\ handled[1].had = StreamLen("shutdown")
    /\ Registered = 1 /\ rconDaily # <<>>
    /\ readerPc = "done" /\ mainPc = "sleepReconnect"
    /\ dateLog = <<>> /\ MsgsBy("reader") = <<>>

\* The type bytes that have a branch in the reader's if/else chain.
DecodedTypes ==
    {adminPacketServerPROTOCOL, adminPacketServerWELCOME,
     adminPacketServerSHUTDOWN, adminPacketServerDATE, adminPacketServerCHAT,
     adminPacketServerRCON, adminPacketServerRCON_END}

\* C27: a complete packet whose type byte has no decoder is non-fatal.  The
\* step that hands it over changes no cached attribute, writes nothing,
\* starts no date-changed event, keeps the process and the connection alive
\* and cuts exactly its total length off chunk; the packets behind it are
\* then processed: once the stream Welcome, two unknown packets, Date is
\* read to its end, all four packets were handed over and the Date packet
\* started its event.
C27_UnknownTypeSkipped ==
    /\ [][(Len(handled') = Len(handled) + 1
           /\ Last(handled').type \notin DecodedTypes)
          => /\ attrs' = attrs /\ wire' = wire
             /\ dateLog' = dateLog /\ queue' = queue
             /\ crashed' = "no" /\ connection' = connection
             /\ lo' = lo + Last(handled').size
             /\ readerPc' = "frame"]_vars
    /\ []((/\ stream = "unknowns" /\ recvd = StreamLen(stream)
           /\ readerPc = "read")
          => /\ crashed = "no"
             /\ HandledPackets = PacketsFrom(stream, 0)
             /\ Len(dateLog) = 1
             /\ attrs = WelcomeExpected("welcome"))

C27_Witness ==
    /\ stream = "unknowns" /\ recvd = StreamLen(stream) /\ readerPc = "read"
    /\ Len(handled) = 4
    /\ handled[2].type = 200 /\ handled[2].size = 6
    /\ handled[3].type = 105 /\ handled[3].start = handled[2].start + 6
    /\ attrs.ServerName = <<65>>
    /\ Len(dateLog) = 1 /\ dateLog[1].cmds # <<>>

\* C28: the receive buffer does not outlive its connection.  A reader that
\* has not yet passed `<-server.connected` holds no bytes and has framed
\* nothing; it enters its receive loop with an empty chunk; and when the
\* reader before it ended with the bytes of a partial packet in
\* its chunk, the first packet it hands over starts at the first byte of its
\* own transport's stream, with the length and type found there (checked at
\* the hand-over; the record of a handed packet does not change later).
C28_BufferNotCarriedOver ==
    /\ [](readerPc \in {"start", "waitConnected"}
          => (ChunkLen = 0 /\ handled = <<>>))
    /\ [][(readerPc = "waitConnected" /\ readerPc' = "read")
          => ChunkLen' = 0]_vars
    /\ []((leftBehind /\ Len(handled) = 1)
          => /\ handled[1].start = 0
             /\ handled[1].size = LEUint16(StreamByte(stream, 1),
                                           StreamByte(stream, 2))
             /\ handled[1].type = StreamByte(stream, 3))

C28_Witness ==
    /\ attempt = 2 /\ leftBehind /\ crashed = "no"
    /\ stream = "dates" /\ readerPc = "read" /\ recvd = StreamLen(stream)
    /\ Len(handled) = 2 /\ handled[1].start = 0
    /\ handled[1].type = adminPacketServerDATE

====
